---- MODULE Spec2Model ----
(***************************************************************************)
(* Model of django-dynamic-models: the ModelSchema / FieldSchema           *)
(* definition entities (dynamic_models/models.py), the FieldKwargsJSON     *)
(* conversions, the table introspection helpers and the ModelRegistry      *)
(* (dynamic_models/utils.py).  ModelFactory and the schema editors         *)
(* (dynamic_models/factory.py, dynamic_models/schema.py) are modelled      *)
(* from the written specification.                                         *)
(*                                                                         *)
(* Strings are sequences of one-character strings, so that title(),        *)
(* lower(), replace() and slugify() are computed character by character.   *)
(* Python None is the empty sequence <<>>, an optional value x is <<x>>.   *)
(***************************************************************************)
EXTENDS Integers, Sequences, FiniteSets, TLC

\* ---------------------------------------------------------------- bounds
MaxModelPk == 2
MaxFieldPk == 1
MaxModelInst == 2
MaxFieldInst == 1
MaxCalls == 2
MaxFail == 2

\* ------------------------------------------------------- string helpers
LowerChars == <<"a","b","c","d","e","f","g","h","i","j","k","l","m",
                "n","o","p","q","r","s","t","u","v","w","x","y","z">>
UpperChars == <<"A","B","C","D","E","F","G","H","I","J","K","L","M",
                "N","O","P","Q","R","S","T","U","V","W","X","Y","Z">>

LowerSet == { LowerChars[i] : i \in 1..26 }
UpperSet == { UpperChars[i] : i \in 1..26 }
ToUpper == [c \in LowerSet |-> UpperChars[CHOOSE i \in 1..26 : LowerChars[i] = c]]
ToLower == [c \in UpperSet |-> LowerChars[CHOOSE i \in 1..26 : UpperChars[i] = c]]

IsCased(c) == c \in LowerSet \/ c \in UpperSet
CharUpper(c) == IF c \in LowerSet THEN ToUpper[c] ELSE c
CharLower(c) == IF c \in UpperSet THEN ToLower[c] ELSE c

\* str.lower()
lower(s) == [i \in 1..Len(s) |-> CharLower(s[i])]

\* str.title(): a cased character is upper-cased after an uncased one (or at
\* the start) and lower-cased after a cased one.
title(s) == [i \in 1..Len(s) |->
               IF i = 1 \/ ~IsCased(s[i-1]) THEN CharUpper(s[i])
                                            ELSE CharLower(s[i])]

\* str.replace(c, "") and str.replace(c, d) for one-character c, d
remove(s, c) == SelectSeq(s, LAMBDA x : x # c)
replace(s, c, d) == [i \in 1..Len(s) |-> IF s[i] = c THEN d ELSE s[i]]

IsWordChar(c) == IsCased(c) \/ c = "_"
IsSep(c) == c = "-" \/ c = " "

RECURSIVE CollapseSeps(_)
\* re.sub(r"[-\s]+", "-", s)
CollapseSeps(s) ==
    IF s = <<>> THEN <<>>
    ELSE IF IsSep(s[1])
         THEN IF Len(s) > 1 /\ IsSep(s[2]) THEN CollapseSeps(Tail(s))
                                            ELSE <<"-">> \o CollapseSeps(Tail(s))
         ELSE <<s[1]>> \o CollapseSeps(Tail(s))

RECURSIVE StripLeft(_)
StripLeft(s) == IF s # <<>> /\ s[1] \in {"-", "_"} THEN StripLeft(Tail(s)) ELSE s

RECURSIVE StripRight(_)
StripRight(s) == IF s # <<>> /\ s[Len(s)] \in {"-", "_"}
                 THEN StripRight(SubSeq(s, 1, Len(s) - 1)) ELSE s

\* django.utils.text.slugify: lower-case, drop what is not a word character,
\* white space or dash, collapse runs of dashes/white space into one dash,
\* strip leading and trailing dashes and underscores.
slugify(s) ==
    StripRight(StripLeft(CollapseSeps(
        SelectSeq(lower(s), LAMBDA c : IsWordChar(c) \/ IsSep(c)))))

\* ------------------------------------------------------------- constants
\* config.dynamic_models_app_label(): the namespace of the dynamic models
AppLabel == <<"n", "s">>

\* FieldSchema._PROHIBITED_NAMES
PROHIBITED_NAMES ==
    { <<"_","_","m","o","d","u","l","e","_","_">>,
      <<"_","d","e","c","l","a","r","e","d">> }

\* ----------------------------------------------------------------- state
VARIABLES
    model_rows,     \* persisted ModelSchema records: pk -> <<>> | <<row>>
    field_rows,     \* persisted FieldSchema records: pk -> <<>> | <<row>>
    next_pk,        \* [model |-> next ModelSchema pk, field |-> next FieldSchema pk]
    tables,         \* physical tables: table name -> [origin, cols]; origin is
                    \* the name the table was created under and stands for
                    \* the rows it holds: a rename keeps it, a CREATE sets it
    all_models,     \* apps.all_models[app_label]: lower-cased type name -> type
    model_inst,     \* in-memory ModelSchema instances: slot -> <<>> | <<inst>>
    field_inst,     \* in-memory FieldSchema instances: slot -> <<>> | <<inst>>
    cursors,        \* introspection calls: the cursor of each call
    conv,           \* the last FieldKwargsJSON conversion
    last            \* the last operation: what it was and how it ended

vars == <<model_rows, field_rows, next_pk, tables, all_models,
          model_inst, field_inst, cursors, conv, last>>

ModelPks == 1..MaxModelPk
FieldPks == 1..MaxFieldPk
ModelSlots == 1..MaxModelInst
FieldSlots == 1..MaxFieldInst
Calls == 1..MaxCalls

\* The database and registry an operation works on, with the DDL it issued
\* (ddl), the steps it completed (steps) and the exception it raised (err,
\* "" when none); fail counts down to the DDL statement the database fails
\* (0: none).
World ==
    [model_rows |-> model_rows, field_rows |-> field_rows, next_pk |-> next_pk,
     tables |-> tables, all_models |-> all_models,
     ddl |-> <<>>, steps |-> <<>>, err |-> "", fail |-> 0]

\* the same, with a database that fails the n-th DDL statement it is given
\* (a transient failure: a lost connection, a lock timeout)
FailingWorld(n) == [World EXCEPT !.fail = n]

Raise(w, e) == [w EXCEPT !.err = e]
Step(w, s) == [w EXCEPT !.steps = Append(@, s)]
Ok(w) == w.err = ""

\* f without the key k
Without(f, k) == [x \in DOMAIN f \ {k} |-> f[x]]
\* f with f[k] = v
With(f, k, v) == [x \in DOMAIN f \cup {k} |-> IF x = k THEN v ELSE f[x]]

\* ----------------------------------------------- ModelSchema properties
get_model_name(name) == remove(title(name), " ")
model_name(m) == get_model_name(m.name)
initial_model_name(m) == get_model_name(m.initial_name)

default_db_table_name(m) == AppLabel \o <<"_">> \o replace(slugify(m.name), "-", "_")
db_table(m) == IF m.db_table_name # <<>> THEN m.db_table_name
                                         ELSE default_db_table_name(m)

\* -------------------------------------------------------- ModelRegistry
is_registered(reg, name) == lower(name) \in DOMAIN reg

\* apps.get_model, LookupError turned into None
registry_get_model(reg, name) ==
    IF lower(name) \in DOMAIN reg THEN <<reg[lower(name)]>> ELSE <<>>

\* unregister_model that looks the name up as it is spelled
unregister_model_as_spelled(w, name) ==
    IF name \in DOMAIN w.all_models
    THEN Step([w EXCEPT !.all_models = Without(@, name)], "unregister")
    ELSE Raise(w, "LookupError")

\* del apps.all_models[app_label][name.lower()], KeyError turned into LookupError
unregister_model(w, name) ==
    IF lower(name) \in DOMAIN w.all_models
    THEN Step([w EXCEPT !.all_models = Without(@, lower(name))], "unregister")
    ELSE Raise(w, "LookupError")

get_registered_model(reg, m) == registry_get_model(reg, model_name(m))

\* ------------------------------------------------------ FieldKwargsJSON
\* An options mapping (kwargs) is a function from option names to values:
\* "null" maps to a boolean, "on_delete" to a string [kind |-> "str"] or to
\* a callable [kind |-> "fn"], name being the string or the callable's
\* __name__.  Where None is possible the mapping is wrapped: <<>> | <<dict>>.
Str(s) == [kind |-> "str", name |-> s]
Fn(s) == [kind |-> "fn", name |-> s]

\* the on-delete policies django.db.models exports by name
Policies == {"CASCADE", "PROTECT", "RESTRICT", "SET_NULL", "SET_DEFAULT", "DO_NOTHING"}
\* names getattr(models, name) finds: the policies and everything else the
\* module exports (here a field class); every such object is callable
ModelsAttrs == Policies \cup {"CharField"}

Result(v) == [value |-> v, err |-> ""]
Error(e) == [value |-> <<>>, err |-> e]

\* json.dumps / json.loads of an options mapping; a callable is not serializable
JsonDumps(v) ==
    IF v = <<>> THEN Result(<<>>)
    ELSE LET d == v[1] IN
         IF "on_delete" \in DOMAIN d /\ d.on_delete.kind = "fn"
         THEN Error("TypeError")
         ELSE Result(<<[json |->
                 { IF k = "on_delete" THEN <<k, "string", d[k].name>>
                   ELSE <<k, "bool", IF d[k] THEN "true" ELSE "false">>
                   : k \in DOMAIN d }]>>)

JsonLoads(v) ==
    IF v = <<>> THEN <<>>
    ELSE LET j == v[1].json IN
         <<[k \in {e[1] : e \in j} |->
              LET e == CHOOSE x \in j : x[1] = k IN
              IF e[2] = "string" THEN Str(e[3]) ELSE e[3] = "true"]>>

convert_on_delete_to_function(raw_value) ==
    IF raw_value = <<>> \/ "on_delete" \notin DOMAIN raw_value[1]
    THEN Result(raw_value)
    ELSE LET raw_on_delete == raw_value[1].on_delete IN
         IF raw_on_delete.kind = "str"
         THEN IF raw_on_delete.name \in ModelsAttrs
              THEN Result(<<With(raw_value[1], "on_delete", Fn(raw_on_delete.name))>>)
              ELSE Error("AttributeError")
         ELSE Result(raw_value)

\* _convert_on_delete_to_string that leaves a callable as it is
convert_on_delete_to_string_unconverted(raw_value) == raw_value

convert_on_delete_to_string(raw_value) ==
    IF raw_value = <<>> \/ "on_delete" \notin DOMAIN raw_value[1]
    THEN raw_value
    ELSE LET raw_on_delete == raw_value[1].on_delete IN
         IF raw_on_delete.kind = "fn"
         THEN <<With(raw_value[1], "on_delete", Str(raw_on_delete.name))>>
         ELSE raw_value

\* to_python: the parent's to_python returns the value as it is
to_python(value) ==
    LET r == convert_on_delete_to_function(value) IN
    IF r.err = "AttributeError" THEN Error("ValidationError") ELSE r

\* from_db_value: the parent parses the stored JSON; an AttributeError of the
\* conversion is outside the try block and propagates
from_db_value(value) == convert_on_delete_to_function(JsonLoads(value))

\* get_prep_value: the conversion writes into the mapping it is given
\* (value.arg is that mapping afterwards), then the parent serializes it
get_prep_value(value) ==
    LET prep_value == convert_on_delete_to_string(value)
        r == JsonDumps(prep_value)
    IN [value |-> r.value, err |-> r.err, arg |-> prep_value]

\* ----------------------------------------------- FieldSchema properties
null(f) == IF "null" \in DOMAIN f.kwargs THEN f.kwargs.null ELSE FALSE
db_column(f) == replace(slugify(f.name), "-", "_")
get_prohibited_names == PROHIBITED_NAMES

\* validate without the check of the nullability change
validate_without_null_check(f) ==
    IF f.name \in get_prohibited_names THEN "InvalidFieldNameError" ELSE ""

\* validate without the check of the name
validate_without_name_check(f) ==
    IF f.initial_null /\ ~null(f) THEN "NullFieldChangedError" ELSE ""

\* FieldSchema.validate: the exception raised, "" when none
validate(f) ==
    IF f.initial_null /\ ~null(f) THEN "NullFieldChangedError"
    ELSE IF f.name \in get_prohibited_names THEN "InvalidFieldNameError"
    ELSE ""

\* --------------------------------------------------------- ModelFactory
\* The persisted field definitions of the model definition pk
FieldRowsOf(w, pk) ==
    { w.field_rows[k][1] : k \in { k \in FieldPks : w.field_rows[k] # <<>>
                                     /\ w.field_rows[k][1].model_schema = pk } }

\* One constructed attribute of a runtime type: the column and the options
\* with the stored on_delete token resolved
FieldOf(row) ==
    [name |-> row.name, column |-> db_column(row),
     options |-> from_db_value(row.kwargs).value[1]]

\* The runtime type of the definition m with the field definitions rows: its
\* logical type name, its table and one attribute per field definition
ModelOf(m, rows) ==
    [name |-> model_name(m), db_table |-> db_table(m), managed |-> m.managed,
     fields |-> [n \in { r.name : r \in rows } |->
                   FieldOf(CHOOSE r \in rows : r.name = n)]]

\* The runtime type of the definition m as declared now
MakeModel(w, m) == ModelOf(m, FieldRowsOf(w, m.pk))

\* The built type d of the definition m: the registered type when that is
\* current, else the entry under the initial type name is dropped and d is
\* registered under the type name
register_model(w, m, d) ==
    IF lower(d.name) \in DOMAIN w.all_models /\ w.all_models[lower(d.name)] = d
    THEN [w |-> w, model |-> <<d>>]
    ELSE [w |-> Step([w EXCEPT !.all_models =
                        With(Without(@, lower(initial_model_name(m))), lower(d.name), d)],
                     "register"),
          model |-> <<d>>]

\* ModelFactory.get_model.  Loading a field definition whose stored on_delete
\* token does not resolve raises.
factory_get_model(w, m) ==
    IF \E r \in FieldRowsOf(w, m.pk) : from_db_value(r.kwargs).err # ""
    THEN [w |-> Raise(w, "AttributeError"), model |-> <<>>]
    ELSE register_model(w, m, MakeModel(w, m))

\* ModelFactory.destroy_model: unregister and discard; a type that is not
\* registered is nothing to do (the lookup failure is not an error here)
destroy_model(w, m) ==
    IF is_registered(w.all_models, model_name(m))
    THEN unregister_model(w, model_name(m))
    ELSE w

\* ------------------------------------------------ storage engine (DDL)
Ddl(op, table, arg) == [op |-> op, table |-> table, arg |-> arg]
Issue(w, stmt) ==
    [w EXCEPT !.ddl = Append(@, stmt), !.fail = IF @ > 0 THEN @ - 1 ELSE 0]

\* the statement about to be executed is the one the database fails
Fails(w) == w.fail = 1
Failed(w) == Raise([w EXCEPT !.fail = 0], "OperationalError")

FieldNull(fd) == IF "null" \in DOMAIN fd.options THEN fd.options.null ELSE FALSE

ColsOf(d) ==
    [c \in { d.fields[n].column : n \in DOMAIN d.fields } |->
        FieldNull(d.fields[CHOOSE n \in DOMAIN d.fields : d.fields[n].column = c])]

create_model(w, d) ==
    IF Fails(w) THEN Failed(w) ELSE
    IF d.db_table \in DOMAIN w.tables THEN Raise(w, "DatabaseError")
    ELSE Issue([w EXCEPT !.tables = With(@, d.db_table, [origin |-> d.db_table, cols |-> ColsOf(d)])],
               Ddl("CREATE TABLE", d.db_table, <<>>))

alter_db_table(w, old, new) ==
    IF Fails(w) THEN Failed(w) ELSE
    IF old \notin DOMAIN w.tables \/ new \in DOMAIN w.tables THEN Raise(w, "DatabaseError")
    ELSE Issue([w EXCEPT !.tables = With(Without(@, old), new, w.tables[old])],
               Ddl("RENAME TABLE", old, new))

delete_model(w, d) ==
    IF Fails(w) THEN Failed(w) ELSE
    IF d.db_table \notin DOMAIN w.tables THEN Raise(w, "DatabaseError")
    ELSE Issue([w EXCEPT !.tables = Without(@, d.db_table)],
               Ddl("DROP TABLE", d.db_table, <<>>))

add_field(w, table, fd) ==
    IF Fails(w) THEN Failed(w) ELSE
    IF table \notin DOMAIN w.tables \/ fd.column \in DOMAIN w.tables[table].cols
    THEN Raise(w, "DatabaseError")
    ELSE Issue([w EXCEPT !.tables[table].cols = With(@, fd.column, FieldNull(fd))],
               Ddl("ADD COLUMN", table, fd.column))

rename_field(w, table, old, new) ==
    IF Fails(w) THEN Failed(w) ELSE
    IF table \notin DOMAIN w.tables \/ old \notin DOMAIN w.tables[table].cols
       \/ new \in DOMAIN w.tables[table].cols
    THEN Raise(w, "DatabaseError")
    ELSE Issue([w EXCEPT !.tables[table].cols = With(Without(@, old), new, @[old])],
               Ddl("RENAME COLUMN", table, new))

alter_field_null(w, table, fd) ==
    IF Fails(w) THEN Failed(w) ELSE
    IF table \notin DOMAIN w.tables \/ fd.column \notin DOMAIN w.tables[table].cols
    THEN Raise(w, "DatabaseError")
    ELSE Issue([w EXCEPT !.tables[table].cols[fd.column] = FieldNull(fd)],
               Ddl("ALTER COLUMN", table, fd.column))

remove_field(w, table, column) ==
    IF Fails(w) THEN Failed(w) ELSE
    IF table \notin DOMAIN w.tables \/ column \notin DOMAIN w.tables[table].cols
    THEN Raise(w, "DatabaseError")
    ELSE Issue([w EXCEPT !.tables[table].cols = Without(@, column)],
               Ddl("DROP COLUMN", table, column))

\* ---------------------------------------------------- Table Introspector
db_table_exists(w, table_name) == table_name \in DOMAIN w.tables
\* _get_table_description: the columns of the table with their null_ok (no
\* column for a table that does not exist)
get_table_description(w, table_name) ==
    IF table_name \in DOMAIN w.tables THEN w.tables[table_name].cols ELSE <<>>

\* db_table_has_field comparing the names without regard to case
db_table_has_field_any_case(w, table_name, field_name) ==
    /\ table_name \in DOMAIN w.tables
    /\ \E c \in DOMAIN w.tables[table_name].cols : lower(c) = lower(field_name)

db_table_has_field(w, table_name, field_name) ==
    table_name \in DOMAIN w.tables /\ field_name \in DOMAIN w.tables[table_name].cols
\* db_field_allows_null reporting the opposite of the column's null_ok
db_field_allows_null_inverted(w, table_name, field_name) ==
    ~w.tables[table_name].cols[field_name]

db_field_allows_null(w, table_name, field_name) == w.tables[table_name].cols[field_name]

\* ---------------------------------------------------- ModelSchemaEditor
\* The DDL of update_table: rename the table of the initial type when the new
\* type's table has another name, create the table when there is none, else
\* no DDL
sync_table(w, prior, new_model) ==
    IF prior # <<>> /\ prior[1].db_table # new_model.db_table
       /\ db_table_exists(w, prior[1].db_table)
    THEN alter_db_table(w, prior[1].db_table, new_model.db_table)
    ELSE IF ~db_table_exists(w, new_model.db_table)
         THEN create_model(w, new_model)
         ELSE w

\* after the DDL the new type becomes the initial type
table_synced(w1, editor, new_model) ==
    IF Ok(w1) THEN [w |-> Step(w1, "update_table"),
                    editor |-> [initial_model |-> <<new_model>>]]
              ELSE [w |-> w1, editor |-> editor]

\* update_table.  Returns the world and the editor.
update_table(w, editor, new_model) ==
    table_synced(sync_table(w, editor.initial_model, new_model), editor, new_model)

\* a drop that did not raise is a completed step
dropped(w1, step) == IF Ok(w1) THEN Step(w1, step) ELSE w1

\* drop_table: drop the table of a managed type; nothing to do when absent
drop_table(w, model) ==
    dropped(IF model.managed /\ db_table_exists(w, model.db_table)
            THEN delete_model(w, model) ELSE w,
            "drop_table")

\* ---------------------------------------------------- FieldSchemaEditor
\* the physical column is not as declared (of a column, the database holds
\* its nullability)
column_differs(w, t, fd) == db_field_allows_null(w, t, fd.column) # FieldNull(fd)

\* alter the column when it is not as declared
alter_if_differs(w, t, fd) ==
    IF Ok(w) /\ column_differs(w, t, fd) THEN alter_field_null(w, t, fd) ELSE w

\* update_column that trusts the field it remembers and does not look at the
\* physical column before it renames
sync_column_by_memory(w, t, fd, prior) ==
    IF prior # <<>> /\ prior[1].column # fd.column
    THEN alter_if_differs(rename_field(w, t, prior[1].column, fd.column), t, fd)
    ELSE IF ~db_table_has_field(w, t, fd.column) THEN add_field(w, t, fd)
    ELSE alter_if_differs(w, t, fd)

\* The DDL of update_column: rename the column when the field's column name
\* changed, add it when it does not exist, alter it when the physical column
\* differs from the declared one, else no DDL
sync_column(w, t, fd, prior) ==
    IF prior # <<>> /\ prior[1].column # fd.column
       /\ db_table_has_field(w, t, prior[1].column)
    THEN alter_if_differs(rename_field(w, t, prior[1].column, fd.column), t, fd)
    ELSE IF ~db_table_has_field(w, t, fd.column) THEN add_field(w, t, fd)
    ELSE alter_if_differs(w, t, fd)

\* after the DDL the new field becomes the initial field
column_synced(w1, editor, field) ==
    IF Ok(w1) THEN [w |-> Step(w1, "update_column"),
                    editor |-> [initial_field |-> field]]
              ELSE [w |-> w1, editor |-> editor]

\* update_column.  Returns the world and the editor.
update_column(w, editor, model, field) ==
    IF field = <<>> THEN [w |-> Raise(w, "AttributeError"), editor |-> editor]
    ELSE column_synced(sync_column(w, model.db_table, field[1], editor.initial_field),
                       editor, field)

\* drop_column: drop the column of a managed type; nothing to do when absent
drop_column(w, model, field) ==
    dropped(IF field # <<>> /\ model.managed
               /\ db_table_has_field(w, model.db_table, field[1].column)
            THEN remove_field(w, model.db_table, field[1].column) ELSE w,
            "drop_column")

\* ----------------------------------------------------------- ModelSchema
\* ModelSchema.__init__: the initial name and the type registered under the
\* name are captured; only a managed definition gets a schema editor
ModelSchema_init(reg, pk, name, managed, db_table_name) ==
    LET self == [pk |-> pk, name |-> name, managed |-> managed,
                 db_table_name |-> db_table_name, initial_name |-> name]
    IN [pk |-> pk, name |-> name, managed |-> managed,
        db_table_name |-> db_table_name, initial_name |-> name,
        editor |-> IF managed
                   THEN <<[initial_model |-> get_registered_model(reg, self)]>>
                   ELSE <<>>]

ModelRow(m) == [name |-> m.name, managed |-> m.managed, db_table_name |-> m.db_table_name]

\* models.Model.save of a ModelSchema: name is unique; an instance without
\* pk is inserted under the next pk.  Returns the world and the instance.
model_super_save(w, m) ==
    IF \E k \in ModelPks : k # m.pk /\ w.model_rows[k] # <<>>
                           /\ w.model_rows[k][1].name = m.name
    THEN [w |-> Raise(w, "IntegrityError"), inst |-> m]
    ELSE LET pk == IF m.pk = 0 THEN w.next_pk.model ELSE m.pk
         IN [w |-> Step([w EXCEPT !.model_rows[pk] = <<ModelRow(m)>>,
                                  !.next_pk.model = IF m.pk = 0 THEN @ + 1 ELSE @],
                        "save_record"),
             inst |-> [m EXCEPT !.pk = pk]]

\* ModelSchema.save after update_table: the initial name is refreshed
ModelSchema_save_from_update_table(s, u) ==
    IF ~Ok(u.w) THEN [w |-> u.w, inst |-> s.inst]
    ELSE [w |-> u.w,
          inst |-> [s.inst EXCEPT !.editor = <<u.editor>>,
                                  !.initial_name = s.inst.name]]

\* ModelSchema.save after as_model(): update_table
ModelSchema_save_from_as_model(s, g) ==
    IF ~Ok(g.w) THEN [w |-> g.w, inst |-> s.inst]
    ELSE ModelSchema_save_from_update_table(
             s, update_table(g.w, s.inst.editor[1], g.model[1]))

\* ModelSchema.save after super().save(): without an editor only the initial
\* name is refreshed
ModelSchema_save_from_super(s) ==
    IF ~Ok(s.w) THEN s
    ELSE IF s.inst.editor = <<>>
    THEN [w |-> s.w, inst |-> [s.inst EXCEPT !.initial_name = s.inst.name]]
    ELSE ModelSchema_save_from_as_model(s, factory_get_model(s.w, s.inst))

\* ModelSchema.save
ModelSchema_save(w, self) == ModelSchema_save_from_super(model_super_save(w, self))

\* a delete of the record that leaves the field definitions behind
model_super_delete_keeping_fields(w, m) ==
    [w |-> Step([w EXCEPT !.model_rows[m.pk] = <<>>], "delete_record"),
     inst |-> [m EXCEPT !.pk = 0]]

\* models.Model.delete of a ModelSchema: the record goes, and with it the
\* field definitions that refer to it (on_delete=CASCADE); the pk is cleared
model_super_delete(w, m) ==
    [w |-> Step([w EXCEPT !.model_rows[m.pk] = <<>>,
                          !.field_rows = [k \in FieldPks |->
                              IF @[k] # <<>> /\ @[k][1].model_schema = m.pk
                              THEN <<>> ELSE @[k]]],
                "delete_record"),
     inst |-> [m EXCEPT !.pk = 0]]

\* ModelSchema.delete, last statement: super().delete()
ModelSchema_delete_record(w, self) ==
    IF Ok(w) THEN model_super_delete(w, self) ELSE [w |-> w, inst |-> self]

\* ModelSchema.delete, second statement: the factory's destroy_model
ModelSchema_delete_destroy(w, self) ==
    ModelSchema_delete_record(IF Ok(w) THEN destroy_model(w, self) ELSE w, self)

\* drop_table of the type as_model() returned
drop_table_of(g) == IF ~Ok(g.w) THEN g.w ELSE drop_table(g.w, g.model[1])

\* ModelSchema.delete, first statement: drop_table(as_model()) with an editor
ModelSchema_delete_drop(w, self) ==
    IF self.editor = <<>> THEN w ELSE drop_table_of(factory_get_model(w, self))

\* delete without the eviction of the runtime type from the registry
ModelSchema_delete_without_destroy(w, self) ==
    ModelSchema_delete_record(ModelSchema_delete_drop(w, self), self)

\* ModelSchema.delete
ModelSchema_delete(w, self) ==
    ModelSchema_delete_destroy(ModelSchema_delete_drop(w, self), self)

\* ----------------------------------------------------------- FieldSchema
\* FieldSchema.get_registered_model_field; owner is self.model_schema
get_registered_model_field(reg, owner, name) ==
    LET latest_model == get_registered_model(reg, owner) IN
    IF latest_model # <<>> /\ name # <<>> /\ name \in DOMAIN latest_model[1].fields
    THEN <<latest_model[1].fields[name]>>
    ELSE <<>>

\* FieldSchema.__init__: the initial name, nullability and registered field
\* are captured; the editor exists only when the owner is managed now.
\* model_schema is the slot of the owning ModelSchema instance.
FieldSchema_init(reg, owner, slot, pk, name, kwargs) ==
    [pk |-> pk, name |-> name, model_schema |-> slot, kwargs |-> kwargs,
     initial_name |-> name,
     initial_null |-> null([kwargs |-> kwargs]),
     editor |-> IF owner.managed
                THEN <<[initial_field |-> get_registered_model_field(reg, owner, name)]>>
                ELSE <<>>]

\* the field of the type g.model under the column name
model_with_field(g, column) ==
    IF ~Ok(g.w) THEN [w |-> g.w, model |-> <<>>, field |-> <<>>]
    ELSE [w |-> g.w, model |-> g.model,
          field |-> IF column \in DOMAIN g.model[1].fields
                    THEN <<g.model[1].fields[column]>> ELSE <<>>]

\* FieldSchema._get_model_with_field: the world, the type and the field
get_model_with_field(w, self, owner) ==
    model_with_field(factory_get_model(w, owner), db_column(self))

\* models.Model.save of a FieldSchema: the owner must be saved and exist,
\* (name, model_schema) is unique; kwargs go through get_prep_value, which
\* writes into the instance's mapping.  Returns the world and the instance.
field_super_save(w, f, owner) ==
    IF owner.pk = 0 THEN [w |-> Raise(w, "ValueError"), inst |-> f]
    ELSE LET p == get_prep_value(<<f.kwargs>>)
             f1 == [f EXCEPT !.kwargs = p.arg[1]]
         IN IF ~(p.err = "") THEN [w |-> Raise(w, p.err), inst |-> f1]
            ELSE IF w.model_rows[owner.pk] = <<>>
                    \/ \E k \in FieldPks : k # f.pk /\ w.field_rows[k] # <<>>
                          /\ w.field_rows[k][1].name = f.name
                          /\ w.field_rows[k][1].model_schema = owner.pk
            THEN [w |-> Raise(w, "IntegrityError"), inst |-> f1]
            ELSE LET pk == IF f.pk = 0 THEN w.next_pk.field ELSE f.pk
                 IN [w |-> Step([w EXCEPT
                            !.field_rows[pk] = <<[name |-> f.name,
                                                  model_schema |-> owner.pk,
                                                  kwargs |-> p.value]>>,
                            !.next_pk.field = IF f.pk = 0 THEN @ + 1 ELSE @],
                          "save_record"),
                     inst |-> [f1 EXCEPT !.pk = pk]]

\* FieldSchema.save after update_column
FieldSchema_save_from_update_column(s, u) ==
    [w |-> u.w, inst |-> [s.inst EXCEPT !.editor = <<u.editor>>]]

\* FieldSchema.save after _get_model_with_field(): update_column with an editor
FieldSchema_save_from_model(s, g) ==
    IF ~Ok(g.w) \/ s.inst.editor = <<>> THEN [w |-> g.w, inst |-> s.inst]
    ELSE FieldSchema_save_from_update_column(
             s, update_column(g.w, s.inst.editor[1], g.model[1], g.field))

\* FieldSchema.save after super().save()
FieldSchema_save_from_super(s, owner) ==
    IF ~Ok(s.w) THEN s
    ELSE FieldSchema_save_from_model(s, get_model_with_field(s.w, s.inst, owner))

\* FieldSchema.save
FieldSchema_save(w, self, owner) ==
    IF validate(self) # "" THEN [w |-> Raise(w, validate(self)), inst |-> self]
    ELSE FieldSchema_save_from_super(field_super_save(w, self, owner), owner)

\* FieldSchema.delete, last statement: super().delete()
FieldSchema_delete_record(w, self) ==
    IF Ok(w)
    THEN [w |-> Step([w EXCEPT !.field_rows[self.pk] = <<>>], "delete_record"),
          inst |-> [self EXCEPT !.pk = 0]]
    ELSE [w |-> w, inst |-> self]

\* FieldSchema.delete, first statement: drop_column with an editor
FieldSchema_delete_column(g, self) ==
    IF ~Ok(g.w) \/ self.editor = <<>> THEN g.w
    ELSE drop_column(g.w, g.model[1], g.field)

\* a delete that removes the record before it drops the column
FieldSchema_delete_record_first(w, self, owner) ==
    [w |-> FieldSchema_delete_column(
               get_model_with_field(FieldSchema_delete_record(w, self).w, self, owner), self),
     inst |-> [self EXCEPT !.pk = 0]]

\* FieldSchema.delete
FieldSchema_delete(w, self, owner) ==
    FieldSchema_delete_record(
        FieldSchema_delete_column(get_model_with_field(w, self, owner), self), self)

\* ------------------------------------------------------ inputs (bounded)
TableNameArgs == { <<>> }

\* ---------------------------------------------------------------- actions
\* Each action is one operation of the definition API: the attribute
\* assignments of the caller followed by the whole save() or delete().
\* last records the operation, the attributes of the instance it was called
\* on as they were before the call (pre, <<>> when the call constructed the
\* instance) and how it ended; after is the error of the operation before
\* it, clean is true while no operation has raised.
Outcome(op, slot, pre, w) ==
    [op |-> op, slot |-> slot, pre |-> pre, err |-> w.err, ddl |-> w.ddl,
     steps |-> w.steps, after |-> last.err, clean |-> last.clean /\ w.err = ""]
PreModel(m) == <<[name |-> m.name, managed |-> m.managed, pk |-> m.pk]>>
PreField(f) == <<[name |-> f.name, null |-> null(f), initial_null |-> f.initial_null,
                  pk |-> f.pk]>>
Plain(op, slot) ==
    [op |-> op, slot |-> slot, pre |-> <<>>, err |-> "", ddl |-> <<>>, steps |-> <<>>,
     after |-> "", clean |-> TRUE]
\* the same, after the operations so far
Carry(op, slot) == [Plain(op, slot) EXCEPT !.clean = last.clean]

Commit(w) ==
    /\ model_rows' = w.model_rows
    /\ field_rows' = w.field_rows
    /\ next_pk' = w.next_pk
    /\ tables' = w.tables
    /\ all_models' = w.all_models

Database == <<model_rows, field_rows, next_pk, tables>>

\* no FieldSchema instance refers to the ModelSchema instance in slot i
Unreferenced(i) ==
    \A j \in FieldSlots :
        IF field_inst[j] = <<>> THEN TRUE ELSE field_inst[j][1].model_schema # i

\* the outcome r of an operation on the ModelSchema instance in slot i
ModelDone(op, i, pre, r) ==
    /\ Commit(r.w)
    /\ model_inst' = [model_inst EXCEPT ![i] = <<r.inst>>]
    /\ last' = Outcome(op, i, pre, r.w)

\* the outcome r of an operation on the FieldSchema instance in slot j
FieldDone(op, j, pre, r) ==
    /\ Commit(r.w)
    /\ field_inst' = [field_inst EXCEPT ![j] = <<r.inst>>]
    /\ last' = Outcome(op, j, pre, r.w)

\* createModel: ModelSchema(name=..., managed=..., db_table_name=...).save()
CreateModel(i, name, managed, tn) ==
    /\ Unreferenced(i)
    /\ next_pk.model <= MaxModelPk
    /\ ModelDone("createModel", i, <<>>,
                 ModelSchema_save(World, ModelSchema_init(all_models, 0, name, managed, tn)))
    /\ UNCHANGED <<field_inst, cursors, conv>>

\* ModelSchema.objects.get(pk=pk)
LoadModel(i, pk) ==
    /\ Unreferenced(i)
    /\ model_rows[pk] # <<>>
    /\ LET row == model_rows[pk][1] IN
       model_inst' = [model_inst EXCEPT ![i] =
          <<ModelSchema_init(all_models, pk, row.name, row.managed, row.db_table_name)>>]
    /\ last' = Carry("loadModel", i)
    /\ UNCHANGED <<Database, all_models, field_inst, cursors, conv>>

\* renameModel / update: instance.name = name; instance.managed = managed;
\* instance.save().  With the values the instance has, a plain save().
UpdateModel(i, name, managed) ==
    /\ model_inst[i] # <<>>
    /\ IF model_inst[i][1].pk = 0 THEN next_pk.model <= MaxModelPk ELSE TRUE
    /\ ModelDone("updateModel", i, PreModel(model_inst[i][1]),
                 ModelSchema_save(World, [model_inst[i][1] EXCEPT !.name = name,
                                                                  !.managed = managed]))
    /\ UNCHANGED <<field_inst, cursors, conv>>

\* deleteModel: instance.delete()
DeleteModel(i) ==
    /\ model_inst[i] # <<>>
    /\ model_inst[i][1].pk # 0
    /\ ModelDone("deleteModel", i, PreModel(model_inst[i][1]),
                 ModelSchema_delete(World, model_inst[i][1]))
    /\ UNCHANGED <<field_inst, cursors, conv>>

\* the outcome g of as_model() on the ModelSchema instance in slot i
RuntimeTypeDone(i, g) ==
    /\ Commit(g.w)
    /\ last' = Outcome("getRuntimeType", i, PreModel(model_inst[i][1]), g.w)

\* getRuntimeType: instance.as_model() of a saved definition
AsModel(i) ==
    /\ model_inst[i] # <<>>
    /\ model_inst[i][1].pk # 0
    /\ RuntimeTypeDone(i, factory_get_model(World, model_inst[i][1]))
    /\ UNCHANGED <<model_inst, field_inst, cursors, conv>>

\* createField: FieldSchema(name=..., model_schema=..., kwargs=...).save()
CreateField(j, i, name, kwargs) ==
    /\ model_inst[i] # <<>>
    /\ next_pk.field <= MaxFieldPk
    /\ FieldDone("createField", j, <<>>,
                 FieldSchema_save(World,
                     FieldSchema_init(all_models, model_inst[i][1], i, 0, name, kwargs),
                     model_inst[i][1]))
    /\ UNCHANGED <<model_inst, cursors, conv>>

\* instance.fields.get(pk=pk) on the ModelSchema instance in slot i
LoadField(j, i, pk) ==
    /\ model_inst[i] # <<>>
    /\ model_inst[i][1].pk # 0
    /\ field_rows[pk] # <<>>
    /\ field_rows[pk][1].model_schema = model_inst[i][1].pk
    /\ LET row == field_rows[pk][1]
           v == from_db_value(row.kwargs)
       IN /\ v.err = ""
          /\ field_inst' = [field_inst EXCEPT ![j] =
                <<FieldSchema_init(all_models, model_inst[i][1], i, pk, row.name, v.value[1])>>]
    /\ last' = Carry("loadField", j)
    /\ UNCHANGED <<Database, all_models, model_inst, cursors, conv>>

\* updateField: instance.name = name; instance.null = value (the setter
\* writes kwargs["null"]); instance.save().  With set = FALSE the null
\* setter is not called.
UpdateField(j, name, set, value) ==
    /\ field_inst[j] # <<>>
    /\ IF field_inst[j][1].pk = 0 THEN next_pk.field <= MaxFieldPk ELSE TRUE
    /\ FieldDone("updateField", j, PreField(field_inst[j][1]),
                 FieldSchema_save(World,
                     [field_inst[j][1] EXCEPT
                         !.name = name,
                         !.kwargs = IF set THEN With(@, "null", value) ELSE @],
                     model_inst[field_inst[j][1].model_schema][1]))
    /\ UNCHANGED <<model_inst, cursors, conv>>

\* deleteField: instance.delete()
DeleteField(j) ==
    /\ field_inst[j] # <<>>
    /\ field_inst[j][1].pk # 0
    /\ model_inst[field_inst[j][1].model_schema][1].pk # 0
    /\ FieldDone("deleteField", j, PreField(field_inst[j][1]),
                 FieldSchema_delete(World, field_inst[j][1],
                                    model_inst[field_inst[j][1].model_schema][1]))
    /\ UNCHANGED <<model_inst, cursors, conv>>

\* the process ends and a new one starts: the registry is empty again and no
\* instance of the old process is left
Restart ==
    /\ IF all_models = <<>> THEN \E i \in ModelSlots : model_inst[i] # <<>> ELSE TRUE
    /\ all_models' = <<>>
    /\ model_inst' = [i \in ModelSlots |-> <<>>]
    /\ field_inst' = [j \in FieldSlots |-> <<>>]
    /\ last' = Carry("restart", 0)
    /\ UNCHANGED <<Database, cursors, conv>>

Init ==
    /\ model_rows = [k \in ModelPks |-> <<>>]
    /\ field_rows = [k \in FieldPks |-> <<>>]
    /\ next_pk = [model |-> 1, field |-> 1]
    /\ tables = <<>>
    /\ all_models = <<>>
    /\ model_inst = [i \in ModelSlots |-> <<>>]
    /\ field_inst = [j \in FieldSlots |-> <<>>]
    /\ cursors = [c \in Calls |-> <<>>]
    /\ conv = <<>>
    /\ last = Plain("init", 0)

\* The operations on model definitions, on the instances Slots and with the
\* names Names; with toggle an update may also change the managed flag
ManagedArgs(i, toggle) ==
    IF toggle THEN BOOLEAN
    ELSE IF model_inst[i] = <<>> THEN {} ELSE {model_inst[i][1].managed}

ModelOps(Slots, Names, toggle) ==
    \/ \E i \in Slots, name \in Names, managed \in BOOLEAN, tn \in TableNameArgs :
          CreateModel(i, name, managed, tn)
    \/ \E i \in Slots, pk \in ModelPks : LoadModel(i, pk)
    \/ \E i \in Slots, name \in Names :
          \E managed \in ManagedArgs(i, toggle) : UpdateModel(i, name, managed)
    \/ \E i \in Slots : DeleteModel(i)
    \/ \E i \in Slots : AsModel(i)
    \/ Restart

\* The operations on the field definitions of the model instances Slots,
\* with the field names Names and the options Kwargs
FieldOps(Slots, Names, Kwargs) ==
    \/ \E j \in FieldSlots, i \in Slots, name \in Names, kwargs \in Kwargs :
          CreateField(j, i, name, kwargs)
    \/ \E j \in FieldSlots, i \in Slots, pk \in FieldPks : LoadField(j, i, pk)
    \/ \E j \in FieldSlots, name \in Names, set \in BOOLEAN, value \in BOOLEAN :
          UpdateField(j, name, set, value)
    \/ \E j \in FieldSlots : DeleteField(j)

Next ==
    \/ ModelOps(ModelSlots, { <<"a", " ", "b">>, <<"a", "b">>, <<"c">> }, TRUE)
    \/ FieldOps(ModelSlots, { <<"f">>, <<"g">>, <<"_","d","e","c","l","a","r","e","d">> },
                { <<>>, [null |-> TRUE], [null |-> FALSE] })

Spec == Init /\ [][Next]_vars

\* Model definitions alone, written by one instance at a time under two
\* names; no field definition
NextModel == ModelOps({1}, {<<"a", " ", "b">>, <<"c">>}, FALSE)
SpecModel == Init /\ [][NextModel]_vars

\* One model definition (one instance, one name) with its field definitions:
\* a valid and a reserved field name, nullable or with no options
NextField ==
    \/ ModelOps({1}, {<<"c">>}, FALSE)
    \/ FieldOps({1}, {<<"f">>, <<"_","d","e","c","l","a","r","e","d">>}, {<<>>, [null |-> TRUE]})
SpecField == Init /\ [][NextField]_vars

\* One model definition whose managed flag may change, with one field
\* definition
NextManaged ==
    \/ ModelOps({1}, {<<"c">>}, TRUE)
    \/ FieldOps({1}, {<<"f">>}, {<<>>})
SpecManaged == Init /\ [][NextManaged]_vars

\* ------------------------------------------- table introspection, by steps
\* An introspection call in progress: the function and its arguments, where
\* the call is (pc), its cursor ("none", "open", "closed"), the value it
\* returned and the exception it raised
Introspections == {"db_table_exists", "db_table_has_field", "db_field_allows_null"}
CursorTableArgs == { AppLabel \o <<"_", "c">>, AppLabel \o <<"_", "x">> }
CursorFieldArgs == { <<"f">>, <<"g">>, <<"F">> }

CallOf(c) == cursors[c][1]
At(c, pcs) == IF cursors[c] = <<>> THEN FALSE ELSE CallOf(c).pc \in pcs
Finished(c) == At(c, {"returned", "raised"})

\* a caller enters db_table_exists(table_name), db_table_has_field(table_name,
\* field_name) or db_field_allows_null(table_name, field_name)
Call(c, fn, table_name, field_name) ==
    /\ cursors[c] = <<>>
    /\ cursors' = [cursors EXCEPT ![c] =
          <<[fn |-> fn, table |-> table_name,
             field |-> IF fn = "db_table_exists" THEN <<>> ELSE field_name,
             pc |-> "called", cursor |-> "none", result |-> <<>>, exc |-> ""]>>]
    /\ UNCHANGED <<Database, all_models, model_inst, field_inst, conv, last>>

\* _db_cursor up to its yield: cursor = connection.cursor()
db_cursor_enter(c) ==
    /\ At(c, {"called"})
    /\ cursors' = [cursors EXCEPT ![c][1].pc = "in_with", ![c][1].cursor = "open"]
    /\ UNCHANGED <<Database, all_models, model_inst, field_inst, conv, last>>

\* the body of the with block: the introspection statement, which the
\* database may fail (fails); else the block is left by its return
Statement(c, fails) ==
    /\ At(c, {"in_with"})
    /\ cursors' = [cursors EXCEPT ![c][1].pc = IF fails THEN "raising" ELSE "leaving",
                                  ![c][1].exc = IF fails THEN "DatabaseError" ELSE ""]
    /\ UNCHANGED <<Database, all_models, model_inst, field_inst, conv, last>>

\* _db_cursor from its yield on: when the block is left by a return the
\* generator resumes and closes the cursor; when the block raised, the
\* exception is thrown into the generator at the yield, which has no
\* try/finally, so that cursor.close() is not reached
db_cursor_exit(c) ==
    /\ At(c, {"leaving", "raising"})
    /\ cursors' = [cursors EXCEPT ![c][1] =
          IF @.pc = "leaving" THEN [@ EXCEPT !.pc = "after_with", !.cursor = "closed"]
                              ELSE [@ EXCEPT !.pc = "raised"]]
    /\ UNCHANGED <<Database, all_models, model_inst, field_inst, conv, last>>

\* the rest of the function after the with block: the value returned, or
\* FieldDoesNotExist of db_field_allows_null
Return(c) ==
    /\ At(c, {"after_with"})
    /\ LET k == CallOf(c)
           found == db_table_has_field(World, k.table, k.field)
       IN cursors' = [cursors EXCEPT ![c][1] =
             IF k.fn = "db_table_exists"
             THEN [@ EXCEPT !.pc = "returned", !.result = <<db_table_exists(World, k.table)>>]
             ELSE IF k.fn = "db_table_has_field"
             THEN [@ EXCEPT !.pc = "returned", !.result = <<found>>]
             ELSE IF k.field \in DOMAIN get_table_description(World, k.table)
             THEN [@ EXCEPT !.pc = "returned",
                            !.result = <<db_field_allows_null(World, k.table, k.field)>>]
             ELSE [@ EXCEPT !.pc = "raised", !.exc = "FieldDoesNotExist"]]
    /\ UNCHANGED <<Database, all_models, model_inst, field_inst, conv, last>>

\* the caller is done with the finished call
Forget(c) ==
    /\ Finished(c)
    /\ cursors' = [cursors EXCEPT ![c] = <<>>]
    /\ UNCHANGED <<Database, all_models, model_inst, field_inst, conv, last>>

\* The database after a managed definition "c" with a nullable field "f" was
\* created, in a process that has constructed nothing yet
InitCursor ==
    /\ model_rows = [k \in ModelPks |->
          IF k = 1 THEN <<[name |-> <<"c">>, managed |-> TRUE, db_table_name |-> <<>>]>>
                   ELSE <<>>]
    /\ field_rows = [k \in FieldPks |->
          IF k = 1 THEN <<[name |-> <<"f">>, model_schema |-> 1,
                           kwargs |-> get_prep_value(<<[null |-> TRUE]>>).value]>>
                   ELSE <<>>]
    /\ next_pk = [model |-> 2, field |-> 2]
    /\ tables = (AppLabel \o <<"_", "c">>) :>
                    [origin |-> AppLabel \o <<"_", "c">>, cols |-> (<<"f">> :> TRUE)]
    /\ all_models = <<>>
    /\ model_inst = [i \in ModelSlots |-> <<>>]
    /\ field_inst = [j \in FieldSlots |-> <<>>]
    /\ cursors = [c \in Calls |-> <<>>]
    /\ conv = <<>>
    /\ last = Plain("init", 0)

NextCursor ==
    \/ \E c \in Calls, fn \in Introspections, t \in CursorTableArgs, f \in CursorFieldArgs :
          Call(c, fn, t, f)
    \/ \E c \in Calls : db_cursor_enter(c)
    \/ \E c \in Calls, fails \in BOOLEAN : Statement(c, fails)
    \/ \E c \in Calls : db_cursor_exit(c)
    \/ \E c \in Calls : Return(c)
    \/ \E c \in Calls : Forget(c)
SpecCursor == InitCursor /\ [][NextCursor]_vars

\* --------------------------------------------- FieldKwargsJSON, by calls
\* The options mappings a caller may assign: None, and mappings with or
\* without null and on_delete; on_delete is a policy, another callable, the
\* name of a policy, the name of another attribute of django.db.models or a
\* name django.db.models does not have
OnDeleteArgs ==
    {Fn(p) : p \in Policies \cup {"custom_handler"}}
    \cup {Str(t) : t \in ModelsAttrs \cup {"BOGUS"}}
OptionArgs ==
    {<<>>}
    \cup {<<d>> : d \in {<<>>, [null |-> TRUE], [null |-> FALSE]}}
    \cup {<<With(d, "on_delete", o)>> :
            d \in {<<>>, [null |-> TRUE], [null |-> FALSE]}, o \in OnDeleteArgs}

\* conv is the last conversion: the function, its argument, what it returned
\* and raised, and the mapping the caller assigned (of a load: the mapping
\* that was serialized into the value loaded)
Conversion(op, input, r, orig) ==
    <<[op |-> op, input |-> input, value |-> r.value, err |-> r.err, orig |-> orig]>>

\* full_clean: to_python of an assigned mapping
ToPython(value) ==
    /\ conv' = Conversion("to_python", value, to_python(value), value)
    /\ UNCHANGED <<Database, all_models, model_inst, field_inst, cursors, last>>

\* save: get_prep_value of an assigned mapping
GetPrepValue(value) ==
    /\ conv' = Conversion("get_prep_value", value, get_prep_value(value), value)
    /\ UNCHANGED <<Database, all_models, model_inst, field_inst, cursors, last>>

\* load: from_db_value of the value the last save stored
FromDbValue ==
    /\ conv # <<>>
    /\ conv[1].op = "get_prep_value"
    /\ conv[1].err = ""
    /\ conv' = Conversion("from_db_value", conv[1].value, from_db_value(conv[1].value),
                          conv[1].orig)
    /\ UNCHANGED <<Database, all_models, model_inst, field_inst, cursors, last>>

NextConv ==
    \/ \E value \in OptionArgs : ToPython(value)
    \/ \E value \in OptionArgs : GetPrepValue(value)
    \/ FromDbValue
SpecConv == Init /\ [][NextConv]_vars

\* ------------------------------------------------- ModelRegistry, by calls
\* type names in several spellings; three of the five differ only in case
\* from another one
TypeNames == { <<"A">>, <<"a">>, <<"A", "b">>, <<"A", "B">>, <<"C">> }

\* the outcome of a registry call on the type name, with the value returned
RegistryOutcome(op, name, result, w) ==
    [op |-> op, slot |-> 0, pre |-> <<[name |-> name, result |-> result]>>,
     err |-> w.err, ddl |-> w.ddl, steps |-> w.steps]

\* the factory registers a runtime type: apps.all_models holds it under the
\* lower-cased type name
RegistryRegister(name) ==
    /\ all_models' = With(all_models, lower(name),
                          [name |-> name, db_table |-> AppLabel \o <<"_">> \o lower(name),
                           managed |-> TRUE, fields |-> <<>>])
    /\ last' = RegistryOutcome("register", name, <<>>, World)
    /\ UNCHANGED <<Database, model_inst, field_inst, cursors, conv>>

\* ModelRegistry.unregister_model(name)
RegistryUnregister(name) ==
    /\ all_models' = unregister_model(World, name).all_models
    /\ last' = RegistryOutcome("unregister", name, <<>>, unregister_model(World, name))
    /\ UNCHANGED <<Database, model_inst, field_inst, cursors, conv>>

\* ModelRegistry.get_model(name)
RegistryGet(name) ==
    /\ last' = RegistryOutcome("get_model", name, registry_get_model(all_models, name), World)
    /\ UNCHANGED <<Database, all_models, model_inst, field_inst, cursors, conv>>

\* ModelRegistry.is_registered(name)
RegistryIsRegistered(name) ==
    /\ last' = RegistryOutcome("is_registered", name, <<is_registered(all_models, name)>>, World)
    /\ UNCHANGED <<Database, all_models, model_inst, field_inst, cursors, conv>>

NextRegistry ==
    \/ \E name \in TypeNames : RegistryRegister(name)
    \/ \E name \in TypeNames : RegistryUnregister(name)
    \/ \E name \in TypeNames : RegistryGet(name)
    \/ \E name \in TypeNames : RegistryIsRegistered(name)
SpecRegistry == Init /\ [][NextRegistry]_vars

\* ------------------------------------- saves and deletes that fail in DDL
\* The operations below are the ones above on a database that fails the
\* n-th DDL statement of the operation.

CreateModelFailing(i, name, n) ==
    /\ Unreferenced(i)
    /\ next_pk.model <= MaxModelPk
    /\ ModelDone("createModel", i, <<>>,
                 ModelSchema_save(FailingWorld(n),
                                  ModelSchema_init(all_models, 0, name, TRUE, <<>>)))
    /\ UNCHANGED <<field_inst, cursors, conv>>

UpdateModelFailing(i, name, n) ==
    /\ model_inst[i] # <<>>
    /\ IF model_inst[i][1].pk = 0 THEN next_pk.model <= MaxModelPk ELSE TRUE
    /\ ModelDone("updateModel", i, PreModel(model_inst[i][1]),
                 ModelSchema_save(FailingWorld(n), [model_inst[i][1] EXCEPT !.name = name]))
    /\ UNCHANGED <<field_inst, cursors, conv>>

CreateFieldFailing(j, i, name, kwargs, n) ==
    /\ model_inst[i] # <<>>
    /\ next_pk.field <= MaxFieldPk
    /\ FieldDone("createField", j, <<>>,
                 FieldSchema_save(FailingWorld(n),
                     FieldSchema_init(all_models, model_inst[i][1], i, 0, name, kwargs),
                     model_inst[i][1]))
    /\ UNCHANGED <<model_inst, cursors, conv>>

UpdateFieldFailing(j, name, set, value, n) ==
    /\ field_inst[j] # <<>>
    /\ IF field_inst[j][1].pk = 0 THEN next_pk.field <= MaxFieldPk ELSE TRUE
    /\ FieldDone("updateField", j, PreField(field_inst[j][1]),
                 FieldSchema_save(FailingWorld(n),
                     [field_inst[j][1] EXCEPT
                         !.name = name,
                         !.kwargs = IF set THEN With(@, "null", value) ELSE @],
                     model_inst[field_inst[j][1].model_schema][1]))
    /\ UNCHANGED <<model_inst, cursors, conv>>

DeleteFieldFailing(j, n) ==
    /\ field_inst[j] # <<>>
    /\ field_inst[j][1].pk # 0
    /\ model_inst[field_inst[j][1].model_schema][1].pk # 0
    /\ FieldDone("deleteField", j, PreField(field_inst[j][1]),
                 FieldSchema_delete(FailingWorld(n), field_inst[j][1],
                                    model_inst[field_inst[j][1].model_schema][1]))
    /\ UNCHANGED <<model_inst, cursors, conv>>

\* One managed model definition with one field definition under two names,
\* saved on a database that may fail a statement
NextRetry ==
    \/ \E name \in {<<"c">>} : CreateModel(1, name, TRUE, <<>>)
    \/ \E pk \in ModelPks : LoadModel(1, pk)
    \/ \E name \in {<<"c">>}, managed \in ManagedArgs(1, FALSE) : UpdateModel(1, name, managed)
    \/ Restart
    \/ \E j \in FieldSlots, name \in {<<"f">>, <<"g">>} : CreateField(j, 1, name, <<>>)
    \/ \E j \in FieldSlots, name \in {<<"f">>, <<"g">>}, set \in BOOLEAN, value \in BOOLEAN :
          UpdateField(j, name, set, value)
    \/ \E name \in {<<"c">>}, n \in 1..MaxFail : CreateModelFailing(1, name, n)
    \/ \E name \in {<<"c">>}, n \in 1..MaxFail : UpdateModelFailing(1, name, n)
    \/ \E j \in FieldSlots, name \in {<<"f">>, <<"g">>}, n \in 1..MaxFail :
          CreateFieldFailing(j, 1, name, <<>>, n)
    \/ \E j \in FieldSlots, name \in {<<"f">>, <<"g">>}, set \in BOOLEAN, value \in BOOLEAN,
          n \in 1..MaxFail :
          UpdateFieldFailing(j, name, set, value, n)
SpecRetry == Init /\ [][NextRetry]_vars

\* One model definition with its field definitions, on a database that may
\* fail the DROP COLUMN of a delete
NextLifecycle ==
    \/ ModelOps({1}, {<<"c">>}, FALSE)
    \/ FieldOps({1}, {<<"f">>, <<"_","d","e","c","l","a","r","e","d">>}, {<<>>, [null |-> TRUE]})
    \/ \E j \in FieldSlots, n \in 1..MaxFail : DeleteFieldFailing(j, n)
SpecLifecycle == Init /\ [][NextLifecycle]_vars

\* Model definitions under two names that differ by a space only, written by
\* one instance at a time
NextNames == ModelOps({1}, {<<"a", " ", "b">>, <<"a", "b">>}, FALSE)
SpecNames == Init /\ [][NextNames]_vars

\* One model definition with one field definition whose options hold an
\* on_delete policy
NextOptions ==
    \/ ModelOps({1}, {<<"c">>}, FALSE)
    \/ FieldOps({1}, {<<"f">>}, {<<>>, [on_delete |-> Fn("CASCADE")]})
SpecOptions == Init /\ [][NextOptions]_vars

\* ----------------------------------------------------------------- claims
\* the nullability a persisted field definition record declares
RowNull(row) == null([kwargs |-> from_db_value(row[1].kwargs).value[1]])

\* the step is the save of the existing FieldSchema instance in slot j
IsFieldSave(j) == last'.op = "updateField" /\ last'.slot = j

\* C1: a save of a field definition that had null=True when the instance was
\* constructed or loaded and has null=False now raises NullFieldChangedError
\* and leaves the definition records, the physical tables and columns and the
\* registry as they were, issuing no DDL.
C1_NullNarrowingRejected ==
    [][\A j \in FieldSlots :
          (IsFieldSave(j) /\ field_inst[j][1].initial_null /\ ~null(field_inst'[j][1]))
          => /\ last'.err = "NullFieldChangedError"
             /\ last'.ddl = <<>>
             /\ UNCHANGED <<model_rows, field_rows, tables, all_models>>]_vars

\* C1 happens: a persisted nullable field definition whose column exists
\* was saved with null=False and the save was rejected
C1_Witness ==
    /\ last.op = "updateField"
    /\ last.err = "NullFieldChangedError"
    /\ last.pre[1].pk # 0
    /\ field_rows[last.pre[1].pk] # <<>>
    /\ RowNull(field_rows[last.pre[1].pk])
    /\ \E t \in DOMAIN tables : <<"f">> \in DOMAIN tables[t].cols /\ tables[t].cols[<<"f">>]

\* C2 (as claimed): a persisted field definition that allows null is never
\* committed with null=False by any step.
C2_NullNeverNarrowed ==
    [][\A k \in FieldPks :
          (field_rows[k] # <<>> /\ field_rows'[k] # <<>> /\ RowNull(field_rows[k]))
          => RowNull(field_rows'[k])]_vars

\* C3 (as claimed): a save of a field definition whose name is reserved
\* raises InvalidFieldNameError, writes no record and issues no DDL.
C3_ReservedNameRaisesInvalidName ==
    [][\A j \in FieldSlots :
          ((IsFieldSave(j) \/ (last'.op = "createField" /\ last'.slot = j))
           /\ field_inst'[j][1].name \in PROHIBITED_NAMES)
          => /\ last'.err = "InvalidFieldNameError"
             /\ last'.ddl = <<>>
             /\ UNCHANGED <<model_rows, field_rows, tables, all_models>>]_vars

\* C3 (amended): a save of a field definition whose name is reserved is
\* rejected before the record is written and before any DDL, with
\* InvalidFieldNameError, or with NullFieldChangedError when the same save
\* also changes null=True to null=False (that check comes first).
C3_ReservedNameRejected ==
    [][\A j \in FieldSlots :
          ((IsFieldSave(j) \/ (last'.op = "createField" /\ last'.slot = j))
           /\ field_inst'[j][1].name \in PROHIBITED_NAMES)
          => /\ last'.err = IF last'.op = "updateField" /\ field_inst[j][1].initial_null
                               /\ ~null(field_inst'[j][1])
                            THEN "NullFieldChangedError" ELSE "InvalidFieldNameError"
             /\ last'.ddl = <<>>
             /\ UNCHANGED <<model_rows, field_rows, tables, all_models>>]_vars

\* C3 happens: an existing field definition was renamed to a reserved name
\* and the save was rejected with InvalidFieldNameError
C3_Witness ==
    /\ last.op = "updateField"
    /\ last.err = "InvalidFieldNameError"
    /\ last.pre[1].pk # 0
    /\ field_rows[last.pre[1].pk] # <<>>
    /\ last.pre[1].name \notin PROHIBITED_NAMES
    /\ field_inst[last.slot][1].name \in PROHIBITED_NAMES

\* the steps of a delete that the order is about
DeleteSteps(steps) ==
    SelectSeq(steps, LAMBDA x : x \in {"drop_table", "unregister", "delete_record"})

C6_RenameCarriesTable ==
    [][\A i \in ModelSlots :
          (/\ last'.op = "updateModel" /\ last'.slot = i /\ last'.err = ""
           /\ model_inst[i][1].managed /\ model_inst'[i][1].managed
           /\ model_inst[i][1].pk # 0
           /\ model_rows[model_inst[i][1].pk] # <<>>
           /\ model_rows[model_inst[i][1].pk][1].name = model_inst[i][1].name
           /\ model_inst'[i][1].name # model_inst[i][1].name
           /\ db_table(model_inst[i][1]) \in DOMAIN tables)
          => LET old == db_table(model_inst[i][1])
                 new == db_table(model_inst'[i][1])
             IN /\ last'.ddl = << Ddl("RENAME TABLE", old, new) >>
                /\ new \in DOMAIN tables'
                /\ tables'[new] = tables[old]
                /\ old \notin DOMAIN tables']_vars

\* C5 (as claimed): a save or delete of a model definition whose managed flag
\* is false at the time of the operation, and a save or delete of a field
\* definition whose owning model definition is unmanaged at that time (on the
\* instance and in its record), issues no DDL.
C5_UnmanagedIssuesNoDdl ==
    [][/\ \A i \in ModelSlots :
             (/\ last'.op \in {"createModel", "updateModel", "deleteModel"}
              /\ last'.slot = i
              /\ ~model_inst'[i][1].managed)
             => last'.ddl = <<>>
       /\ \A j \in FieldSlots :
             (/\ last'.op \in {"createField", "updateField", "deleteField"}
              /\ last'.slot = j
              /\ LET owner == model_inst[field_inst'[j][1].model_schema][1] IN
                 /\ ~owner.managed
                 /\ owner.pk # 0
                 /\ model_rows[owner.pk] # <<>>
                 /\ ~model_rows[owner.pk][1].managed)
             => last'.ddl = <<>>]_vars

\* the declared options of a persisted field definition record
RowKwargs(row) == from_db_value(row[1].kwargs).value[1]

C8_CursorClosedOnEveryExit ==
    \A c \in Calls : Finished(c) => CallOf(c).cursor = "closed"

\* the on_delete entry of an options mapping, <<>> when there is none
OnDeleteOf(v) ==
    IF v = <<>> THEN <<>>
    ELSE IF "on_delete" \in DOMAIN v[1] THEN <<v[1].on_delete>> ELSE <<>>

\* the mapping a conversion was given (of a load: the stored one, parsed)
GivenTo(c) == IF c.op = "from_db_value" THEN JsonLoads(c.input) ELSE c.input

\* the mapping has an on_delete token that names none of the policies
Unrecognized(v) ==
    IF OnDeleteOf(v) = <<>> THEN FALSE
    ELSE OnDeleteOf(v)[1].kind = "str" /\ OnDeleteOf(v)[1].name \notin Policies

\* C9 (as claimed): to_python, from_db_value and get_prep_value of an options
\* mapping whose on_delete token is none of the policies raise an error.
C9_UnrecognizedTokenRaises ==
    conv # <<>> => (Unrecognized(GivenTo(conv[1])) => conv[1].err # "")

\* C10: get_prep_value of a mapping whose on_delete is a policy stores the
\* policy's name as a string, the other options as they are, and
\* from_db_value of what was stored gives the mapping with the policy back;
\* None and mappings without on_delete come out of to_python, get_prep_value
\* and from_db_value as they went in.
C10_OnDeleteRoundTrips ==
    conv # <<>> =>
        LET c == conv[1]
            o == OnDeleteOf(c.orig)
        IN /\ (o # <<>> /\ o[1].kind = "fn" /\ o[1].name \in Policies) =>
                 /\ c.op = "get_prep_value" =>
                       /\ c.err = ""
                       /\ JsonLoads(c.value) = <<With(c.orig[1], "on_delete", Str(o[1].name))>>
                 /\ c.op = "from_db_value" => (c.err = "" /\ c.value = c.orig)
           /\ o = <<>> =>
                 /\ c.err = ""
                 /\ c.op = "get_prep_value" => JsonLoads(c.value) = c.orig
                 /\ c.op \in {"to_python", "from_db_value"} => c.value = c.orig

\* C10 happens: a mapping with on_delete=CASCADE and null=True was stored
\* and loaded again
C10_Witness ==
    /\ conv # <<>>
    /\ conv[1].op = "from_db_value"
    /\ conv[1].orig = <<[null |-> TRUE, on_delete |-> Fn("CASCADE")]>>
    /\ conv[1].input = JsonDumps(<<[null |-> TRUE, on_delete |-> Str("CASCADE")]>>).value
    /\ conv[1].value = <<[null |-> TRUE, on_delete |-> Fn("CASCADE")]>>

\* the registry reg as a world no call has acted on
RegistryWorld(reg) == [World EXCEPT !.all_models = reg]

\* C11: unregister_model of a type name without an entry raises LookupError
\* and leaves the registry as it was; of a name with an entry it removes the
\* entry under the lower-cased name and no other, after which get_model
\* returns None, is_registered is false and another unregister_model raises.
C11_UnregisterRemovesExactlyOne ==
    [][last'.op = "unregister" =>
         LET name == last'.pre[1].name IN
         IF lower(name) \in DOMAIN all_models
         THEN /\ last'.err = ""
              /\ DOMAIN all_models' = DOMAIN all_models \ {lower(name)}
              /\ \A k \in DOMAIN all_models' : all_models'[k] = all_models[k]
              /\ registry_get_model(all_models', name) = <<>>
              /\ ~is_registered(all_models', name)
              /\ unregister_model(RegistryWorld(all_models'), name).err = "LookupError"
         ELSE /\ last'.err = "LookupError"
              /\ all_models' = all_models]_vars

\* C11 happens: a type registered as "Ab" was unregistered under the
\* spelling "AB" while another entry stayed
C11_Witness ==
    /\ last.op = "unregister"
    /\ last.err = ""
    /\ last.pre[1].name = <<"A", "B">>
    /\ last.steps = <<"unregister">>
    /\ <<"a", "b">> \notin DOMAIN all_models
    /\ <<"c">> \in DOMAIN all_models

\* ---------------------------------------------------------------- C12
\* the statements of a sequence of DDL
Statements(ddl) == { ddl[k] : k \in DOMAIN ddl }
\* the tables a database holds, by the name they were made with
Origins(tbls) == { tbls[t].origin : t \in DOMAIN tbls }
\* this step repeats, on the same instance and with the same values, the save
\* that has just failed in a DDL statement, and the database does not fail it
\* (for a field definition: the table of its model definition exists); the
\* database holds no table or column left over from an abandoned save
NoLeftover ==
    /\ Cardinality(DOMAIN tables) <= Cardinality({ k \in ModelPks : model_rows[k] # <<>> })
    /\ \A t \in DOMAIN tables :
          Cardinality(DOMAIN tables[t].cols) <=
              Cardinality({ k \in FieldPks : field_rows[k] # <<>> })
\* the column the instance remembers is its own: no other field definition
\* record declares it
MemoryIsOwn(f) ==
    \A e \in { x \in {f.editor} : x # <<>> } :
        \A fd \in { y \in {e[1].initial_field} : y # <<>> } :
            \A k \in FieldPks \ {f.pk} :
                IF field_rows[k] = <<>> THEN TRUE
                ELSE field_rows[k][1].name # fd[1].name
IsModelRetry ==
    /\ NoLeftover
    /\ last.op \in {"createModel", "updateModel"}
    /\ last.err = "OperationalError"
    /\ last'.op = "updateModel" /\ last'.slot = last.slot
    /\ last'.pre # <<>> /\ last'.pre[1].name = model_inst'[last.slot][1].name
    /\ last'.err # "OperationalError"
IsFieldRetry ==
    /\ NoLeftover
    /\ last.op \in {"createField", "updateField"}
    /\ last.err = "OperationalError"
    /\ last'.op = "updateField" /\ last'.slot = last.slot
    /\ last'.pre # <<>> /\ last'.pre[1].name = field_inst'[last.slot][1].name
    /\ last'.pre[1].null = null(field_inst'[last.slot][1])
    /\ last'.err # "OperationalError"
    /\ db_table(model_inst[field_inst[last.slot][1].model_schema][1]) \in DOMAIN tables
    /\ MemoryIsOwn(field_inst[last.slot][1])
\* the retry repeats no statement of the failed attempt, drops nothing and
\* makes nothing that exists
RetryDdlIsSafe ==
    /\ Statements(last'.ddl) \cap Statements(last.ddl) = {}
    /\ \A st \in Statements(last'.ddl) :
          /\ st.op \notin {"DROP TABLE", "DROP COLUMN"}
          /\ st.op = "CREATE TABLE" => st.table \notin DOMAIN tables
          /\ st.op = "ADD COLUMN" => st.arg \notin DOMAIN tables[st.table].cols
    /\ Origins(tables) \subseteq Origins(tables')
FieldConverged(f, owner) ==
    /\ db_table(owner) \in DOMAIN tables'
    /\ db_column(f) \in DOMAIN tables'[db_table(owner)].cols
    /\ tables'[db_table(owner)].cols[db_column(f)] = null(f)
OwnedFieldPks(rows, pk) ==
    { k \in FieldPks : IF rows[k] = <<>> THEN FALSE ELSE rows[k][1].model_schema = pk }

\* C13: a delete of a model definition removes every field definition record
\* that refers to it, and the only DDL it issues is the one DROP TABLE of its
\* table (none for an unmanaged definition or an absent table): no DROP COLUMN
\* for the field definitions that go with it.
C13_DeleteCascadesWithOneDrop ==
    [][(last'.op = "deleteModel" /\ last'.err = "")
       => /\ OwnedFieldPks(field_rows', last'.pre[1].pk) = {}
          /\ \A k \in FieldPks \ OwnedFieldPks(field_rows, last'.pre[1].pk) :
                field_rows'[k] = field_rows[k]
          /\ last'.ddl =
                IF last'.pre[1].managed
                   /\ db_table(model_inst'[last'.slot][1]) \in DOMAIN tables
                THEN << Ddl("DROP TABLE", db_table(model_inst'[last'.slot][1]), <<>>) >>
                ELSE <<>>]_vars

\* C13 happens: a managed model definition with a field definition whose
\* column existed was deleted; the record of the field definition is gone
\* while an instance still carries its primary key
C13_Witness ==
    /\ last.op = "deleteModel" /\ last.err = ""
    /\ Len(last.ddl) = 1 /\ last.ddl[1].op = "DROP TABLE"
    /\ \E j \in FieldSlots :
          /\ field_inst[j] # <<>>
          /\ field_inst[j][1].pk # 0
          /\ field_inst[j][1].model_schema = last.slot
          /\ field_rows[field_inst[j][1].pk] = <<>>

\* ---------------------------------------------------------------- C14
\* the introspected column list of a table: the names of its columns with
\* their null_ok (no column for a table that does not exist)
Description(table_name) ==
    IF table_name \in DOMAIN tables
    THEN { <<c, tables[table_name].cols[c]>> : c \in DOMAIN tables[table_name].cols }
    ELSE {}
\* the call has finished and got its column list (its statement did not fail)
Introspected(c) == Finished(c) /\ CallOf(c).exc # "DatabaseError"

\* C14: db_field_allows_null(table, column) that got the column list returns
\* null_ok of the column of exactly that name and raises FieldDoesNotExist
\* when the list has no such column; db_table_has_field(table, column) returns
\* True exactly when db_field_allows_null of the same arguments returns.
C14_AllowsNullOfExactColumn ==
    \A c \in Calls : Introspected(c) =>
        /\ CallOf(c).fn = "db_field_allows_null" =>
              IF \E d \in Description(CallOf(c).table) : d[1] = CallOf(c).field
              THEN /\ CallOf(c).pc = "returned"
                   /\ \E d \in Description(CallOf(c).table) :
                         d[1] = CallOf(c).field /\ CallOf(c).result = <<d[2]>>
              ELSE CallOf(c).pc = "raised" /\ CallOf(c).exc = "FieldDoesNotExist"
        /\ CallOf(c).fn = "db_table_has_field" =>
              /\ CallOf(c).pc = "returned"
              /\ \A e \in Calls :
                    (/\ Introspected(e)
                     /\ CallOf(e).fn = "db_field_allows_null"
                     /\ CallOf(e).table = CallOf(c).table
                     /\ CallOf(e).field = CallOf(c).field)
                    => (CallOf(c).result = <<TRUE>> <=> CallOf(e).pc = "returned")

\* C14 happens: for a name that differs from a column's name only by case,
\* db_field_allows_null has raised FieldDoesNotExist and db_table_has_field
\* has returned False
C14_Witness ==
    \E c, e \in Calls :
        /\ Introspected(c) /\ Introspected(e)
        /\ CallOf(c).fn = "db_table_has_field" /\ CallOf(e).fn = "db_field_allows_null"
        /\ CallOf(c).table = CallOf(e).table /\ CallOf(c).field = CallOf(e).field
        /\ CallOf(c).field = <<"F">> /\ CallOf(c).table \in DOMAIN tables
        /\ CallOf(c).result = <<FALSE>>
        /\ CallOf(e).exc = "FieldDoesNotExist"

\* ---------------------------------------------------------------- C15
\* C15 (as claimed): after a save of a model definition that raised nothing
\* the instance's initial_name is the name it has committed, and after a
\* save of a field definition that raised nothing the instance's initial_name
\* and initial_null are the name and the nullability it has committed.
C15_InitialStateFollowsCommit ==
    [][/\ (last'.op \in {"createModel", "updateModel"} /\ last'.err = "")
          => /\ model_rows'[model_inst'[last'.slot][1].pk][1].name
                    = model_inst'[last'.slot][1].name
             /\ model_inst'[last'.slot][1].initial_name = model_inst'[last'.slot][1].name
       /\ (last'.op \in {"createField", "updateField"} /\ last'.err = "")
          => /\ field_rows'[field_inst'[last'.slot][1].pk][1].name
                    = field_inst'[last'.slot][1].name
             /\ field_inst'[last'.slot][1].initial_name = field_inst'[last'.slot][1].name
             /\ field_inst'[last'.slot][1].initial_null
                    = RowNull(field_rows'[field_inst'[last'.slot][1].pk])]_vars

\* ---------------------------------------------------------------- C16
\* the steps of a save and of a delete of a field definition that the order
\* is about
FieldSaveSteps(steps) ==
    SelectSeq(steps, LAMBDA x : x \in {"save_record", "update_column"})
FieldDeleteSteps(steps) ==
    SelectSeq(steps, LAMBDA x : x \in {"drop_column", "delete_record"})

\* C16: a save of a field definition validates first (a validation error
\* leaves no record written and no DDL issued), then writes the record, then
\* synchronizes the column; a delete drops the column first and removes the
\* record afterwards, and when the drop raises, the error reaches the caller
\* and no record is removed.
C16_FieldLifecycleOrder ==
    [][/\ last'.op \in {"createField", "updateField"} =>
            /\ last'.err \in {"NullFieldChangedError", "InvalidFieldNameError"}
                  => last'.steps = <<>> /\ last'.ddl = <<>> /\ field_rows' = field_rows
            /\ FieldSaveSteps(last'.steps) \in
                  IF last'.err # "" THEN { <<>>, <<"save_record">> }
                  ELSE IF field_inst'[last'.slot][1].editor = <<>>
                       THEN { <<"save_record">> }
                       ELSE { <<"save_record", "update_column">> }
            /\ last'.ddl # <<>> => FieldSaveSteps(last'.steps) # <<>>
       /\ last'.op = "deleteField" =>
            /\ FieldDeleteSteps(last'.steps) =
                  IF last'.err # "" THEN <<>>
                  ELSE IF field_inst'[last'.slot][1].editor = <<>>
                       THEN <<"delete_record">>
                       ELSE <<"drop_column", "delete_record">>
            /\ last'.err # "" =>
                  /\ field_rows' = field_rows
                  /\ field_inst'[last'.slot][1].pk = last'.pre[1].pk]_vars

\* C16 happens: the DROP COLUMN of a delete has failed; the error has reached
\* the caller, the column and the record of the field definition are there
C16_Witness ==
    /\ last.op = "deleteField" /\ last.err = "OperationalError"
    /\ field_rows[last.pre[1].pk] # <<>>
    /\ \E t \in DOMAIN tables :
          db_column(field_inst[last.slot][1]) \in DOMAIN tables[t].cols

\* ---------------------------------------------------------------- C17
\* C17 (as claimed, the single-writer half): with one writer per model
\* definition (one instance at a time, in one process at a time) no save or
\* delete issues DDL that conflicts with what the database holds, that is, a
\* statement the database rejects because the table it would make exists or
\* the table it would change does not.
C17_SingleWriterIssuesNoConflictingDdl ==
    last.op \in {"createModel", "updateModel", "deleteModel"} => last.err # "DatabaseError"

\* ---------------------------------------------------------------- C18
\* the persisted model definitions
PersistedModels == { model_rows[k][1] : k \in { x \in ModelPks : model_rows[x] # <<>> } }
\* the tables are the tables of the persisted managed definitions, and every
\* registry entry is the runtime type of a persisted definition
Synchronized(rows, tbls, reg) ==
    /\ DOMAIN tbls = { db_table(r) : r \in { x \in rows : x.managed } }
    /\ \A key \in DOMAIN reg : \E r \in rows : lower(model_name(r)) = key

\* C18 (as claimed): after operations none of which has failed, the last
\* of them a create, rename or delete of a managed model definition, the
\* tables are exactly the tables of the persisted managed definitions and
\* every registry entry corresponds to a persisted definition.
C18_SingleWriterStaysSynchronized ==
    (/\ last.clean
     /\ last.op \in {"createModel", "updateModel", "deleteModel"}
     /\ model_inst[last.slot][1].managed)
    => Synchronized(PersistedModels, tables, all_models)

\* ---------------------------------------------------------------- C19
\* C19 (as claimed): two persisted model definitions with different names
\* have different registry keys (their lower-cased type names) and different
\* table names.
C19_DistinctNamesDistinctKeys ==
    \A r1, r2 \in PersistedModels :
        r1.name # r2.name =>
            /\ lower(model_name(r1)) # lower(model_name(r2))
            /\ db_table(r1) # db_table(r2)

\* ---------------------------------------------------------------- C20
\* the options hold an executable on_delete policy
HoldsPolicy(kwargs) ==
    /\ OnDeleteOf(<<kwargs>>) # <<>>
    /\ OnDeleteOf(<<kwargs>>)[1].kind = "fn"

\* C20 (as claimed): after a save, without an error, of a field definition
\* whose options hold an executable on_delete policy, the options of the
\* instance hold that policy still.
C20_SaveKeepsOptionsInMemory ==
    [][\A j \in FieldSlots :
          (/\ IsFieldSave(j) /\ last'.err = ""
           /\ HoldsPolicy(field_inst[j][1].kwargs))
          => OnDeleteOf(<<field_inst'[j][1].kwargs>>)
                = OnDeleteOf(<<field_inst[j][1].kwargs>>)]_vars

====
